---- MODULE Spec2Model ----
(***************************************************************************)
(* The agent catalog, capability index, selection, recommendation,         *)
(* execution and chain handlers of the x402 registry                       *)
(* (src/src/routes/agents.ts) and the owner-only endpoint handlers         *)
(* (src/src/routes/registry.ts).                                           *)
(*                                                                         *)
(* Text is modelled as a tuple of one-character strings, so that           *)
(* toLowerCase and String.includes are computed and not assumed.           *)
(* A JSON field that is missing is the value Missing.  Math.random is a    *)
(* nondeterministic choice; nothing in the code makes two draws differ.    *)
(*                                                                         *)
(* A handler of agents.ts runs from the parsed body to its return without  *)
(* interruption; the DELETE and PUT handlers of registry.ts await the      *)
(* database between their statements and are modelled one statement at a   *)
(* time.  req and resp hold the request and its response until Respond     *)
(* hands the response back.  Fields a handler only copies (description,    *)
(* endpoints, action, pricing.model, pricing.token) and the clock and      *)
(* random values of a response (ids of executions, responseTime,           *)
(* duration) are left out.                                                 *)
(***************************************************************************)
EXTENDS Integers, Sequences, FiniteSets, TLC

VARIABLES
  agentRegistry,    \* Map<string, Agent> in insertion order: a sequence of agents
  capabilityIndex,  \* Map<string, Set<string>>: capability -> ids in insertion order
  nRegistered,      \* number of agents /register has stored so far (bounded)
  req,              \* the request being answered, NoReq when the server is idle
  resp,             \* the response to req, NoResp when the server is idle
  inflight,         \* /agents/register requests whose handlers overlap in time
  endpoints,        \* rows of the D1 table endpoints (src/src/routes/registry.ts)
  invoices,         \* Map<string, PaymentInvoice> of the payment routes: id -> invoice
  pending           \* DELETE and PUT /registry/:id handlers waiting at an await

vars ==
  <<agentRegistry, capabilityIndex, nRegistered, req, resp, inflight, endpoints, invoices,
    pending>>

(***************************************************************************)
(* Bounds of the model.                                                    *)
(***************************************************************************)
MaxRegister == 2
MaxPreferred == 2
MaxSteps == 2
MaxInflight == 2
MaxWords == 3
MaxPlanAgents == 6

(***************************************************************************)
(* Program constants.                                                      *)
(***************************************************************************)
SeedPrice == 500
\* agents.slice(0, 5) in buildExecutionPlan
PlanLimit == 5
\* estimatedTime: 500 + index * 200
StepTimeBase == 500
StepTimeIncrement == 200
\* recommendations.slice(0, 10)
RecommendLimit == 10

Missing == "undefined"
SeedId == "sbtc-yield-agent"
SeedOwner == "SP2QXPFF4M72QYZWXE7S5321XJDJ2DD32DGEMN5QA"
SeedCapabilities ==
  <<"defi", "yield-farming", "lending", "blockchain-query", "data-transform">>

(***************************************************************************)
(* Input domains.                                                          *)
(***************************************************************************)
\* values generateAgentId can return: "agent_" + base-36 digits of Math.random()
GeneratedIds == {"agent_a", "agent_b"}
\* ids a caller names in preferredAgents and in chain steps; whether one of
\* them resolves depends on the catalog
PreferredIds == {"agent_a", SeedId}
StepIds == {"agent_a", "agent_b"}
Prices == {0, 5, 300, 700}
Budgets == {0, 100, 505, 1000}
Names == {Missing, "Bot"}
Owners == {Missing, "SP1"}
Tokens == {Missing, "sBTC"}
CapabilityLists == { <<>>, <<"summarize">>, <<"blockchain-query", "summarize">> }
\* a capabilities field that is a JSON string instead of a list
CapabilityStrings == {"summarize"}

(***************************************************************************)
(* Text.                                                                   *)
(***************************************************************************)
toLowerCaseChar(c) ==
  CASE c = "A" -> "a"
    [] c = "B" -> "b"
    [] c = "C" -> "c"
    [] c = "D" -> "d"
    [] c = "E" -> "e"
    [] c = "F" -> "f"
    [] c = "G" -> "g"
    [] c = "H" -> "h"
    [] c = "I" -> "i"
    [] c = "J" -> "j"
    [] c = "K" -> "k"
    [] c = "L" -> "l"
    [] c = "M" -> "m"
    [] c = "N" -> "n"
    [] c = "O" -> "o"
    [] c = "P" -> "p"
    [] c = "Q" -> "q"
    [] c = "R" -> "r"
    [] c = "S" -> "s"
    [] c = "T" -> "t"
    [] c = "U" -> "u"
    [] c = "V" -> "v"
    [] c = "W" -> "w"
    [] c = "X" -> "x"
    [] c = "Y" -> "y"
    [] c = "Z" -> "z"
    [] OTHER -> c

toLowerCase(s) == [i \in 1..Len(s) |-> toLowerCaseChar(s[i])]

\* a search that looks for kw at the start of s only
includesAtStart(s, kw) ==
  Len(kw) <= Len(s) /\ SubSeq(s, 1, Len(kw)) = kw

\* String.prototype.includes
includes(s, kw) ==
  \E i \in 1..(Len(s) - Len(kw) + 1) : SubSeq(s, i, i + Len(kw) - 1) = kw

capabilityKeywords ==
  << [capability |-> "summarize",
      keywords |-> << <<"s","u","m","m","a","r","i","z","e">>,
                     <<"s","u","m","m","a","r","y">>,
                     <<"t","l","d","r">>,
                     <<"c","o","n","d","e","n","s","e">> >>],
     [capability |-> "translate",
      keywords |-> << <<"t","r","a","n","s","l","a","t","e">>,
                     <<"t","r","a","n","s","l","a","t","i","o","n">>,
                     <<"l","a","n","g","u","a","g","e">> >>],
     [capability |-> "image-generate",
      keywords |-> << <<"g","e","n","e","r","a","t","e"," ","i","m","a","g","e">>,
                     <<"c","r","e","a","t","e"," ","i","m","a","g","e">>,
                     <<"d","r","a","w">>,
                     <<"i","l","l","u","s","t","r","a","t","i","o","n">> >>],
     [capability |-> "image-analyze",
      keywords |-> << <<"a","n","a","l","y","z","e"," ","i","m","a","g","e">>,
                     <<"d","e","s","c","r","i","b","e"," ","i","m","a","g","e">>,
                     <<"w","h","a","t","'","s"," ","i","n"," ","t","h","i","s">> >>],
     [capability |-> "search",
      keywords |-> << <<"s","e","a","r","c","h">>,
                     <<"f","i","n","d">>,
                     <<"l","o","o","k"," ","u","p">>,
                     <<"g","o","o","g","l","e">> >>],
     [capability |-> "web-scrape",
      keywords |-> << <<"s","c","r","a","p","e">>,
                     <<"e","x","t","r","a","c","t"," ","f","r","o","m">>,
                     <<"c","r","a","w","l">> >>],
     [capability |-> "code-generate",
      keywords |-> << <<"w","r","i","t","e"," ","c","o","d","e">>,
                     <<"g","e","n","e","r","a","t","e"," ","c","o","d","e">>,
                     <<"c","r","e","a","t","e"," ","f","u","n","c","t","i","o","n">> >>],
     [capability |-> "code-analyze",
      keywords |-> << <<"a","n","a","l","y","z","e"," ","c","o","d","e">>,
                     <<"r","e","v","i","e","w"," ","c","o","d","e">>,
                     <<"e","x","p","l","a","i","n"," ","c","o","d","e">> >>],
     [capability |-> "blockchain-query",
      keywords |-> << <<"b","l","o","c","k","c","h","a","i","n">>,
                     <<"t","r","a","n","s","a","c","t","i","o","n">>,
                     <<"w","a","l","l","e","t">>,
                     <<"b","a","l","a","n","c","e">> >>],
     [capability |-> "data-transform",
      keywords |-> << <<"t","r","a","n","s","f","o","r","m">>,
                     <<"c","o","n","v","e","r","t">>,
                     <<"p","a","r","s","e">>,
                     <<"f","o","r","m","a","t">> >>],
     [capability |-> "sentiment",
      keywords |-> << <<"s","e","n","t","i","m","e","n","t">>,
                     <<"f","e","e","l","i","n","g">>,
                     <<"e","m","o","t","i","o","n">>,
                     <<"t","o","n","e">> >>],
     [capability |-> "classify",
      keywords |-> << <<"c","l","a","s","s","i","f","y">>,
                     <<"c","a","t","e","g","o","r","i","z","e">>,
                     <<"l","a","b","e","l">>,
                     <<"t","a","g">> >>] >>

TaskHello == <<"h","e","l","l","o">>
TaskTldr == <<"T","L","D","R"," ","p","l","e","a","s","e">>
TaskWalletFormat == <<"W","a","l","l","e","t"," ","f","o","r","m","a","t">>
TaskSummarizeBalance == <<"s","u","m","m","a","r","i","z","e"," ","b","a","l","a","n","c","e">>

\* task texts a caller sends; <<>> is the empty (or missing) task
Tasks == {<<>>, TaskHello, TaskTldr, TaskWalletFormat, TaskSummarizeBalance}

(***************************************************************************)
(* JavaScript values.                                                      *)
(***************************************************************************)
\* !v for a string field: missing or the empty string
Falsy(v) == v = Missing \/ v = ""

RECURSIVE SumSeq(_)
\* Array.prototype.reduce((sum, x) => sum + x, 0)
SumSeq(s) == IF s = <<>> THEN 0 ELSE Head(s) + SumSeq(Tail(s))

\* mutation of PlatformFee: the fee rounded down
PlatformFeeFloor(x) == x \div 10
\* Math.ceil(x * 0.1) for an integer x >= 0.  The double nearest to x * 0.1 is
\* x / 10 itself when 10 divides x and lies strictly between the same two
\* integers as x / 10 otherwise, so the result is the integer ceiling of x / 10.
PlatformFee(x) == (x + 9) \div 10

(***************************************************************************)
(* The agent catalog and the capability index.                             *)
(***************************************************************************)
SeedAgent ==
  [id |-> SeedId, name |-> "sBTC Yield Agent", capabilities |-> SeedCapabilities,
   capsIsList |-> TRUE, owner |-> SeedOwner, basePrice |-> SeedPrice]

\* Map.prototype.has and Map.prototype.get on agentRegistry
RegistryHas(reg, id) == \E i \in 1..Len(reg) : reg[i].id = id
RegistryGet(reg, id) == reg[CHOOSE i \in 1..Len(reg) : reg[i].id = id]

\* Map.prototype.set: a present key keeps its place and takes the new value
RegistrySet(reg, agent) ==
  IF RegistryHas(reg, agent.id)
  THEN [i \in 1..Len(reg) |-> IF reg[i].id = agent.id THEN agent ELSE reg[i]]
  ELSE Append(reg, agent)

\* Set.prototype.add
SetAdd(s, x) == IF \E i \in 1..Len(s) : s[i] = x THEN s ELSE Append(s, x)

\* capabilityIndex.get(cap) || new Set()
IndexGet(idx, cap) == IF cap \in DOMAIN idx THEN idx[cap] ELSE <<>>

\* capabilityIndex.set(cap, ids)
IndexSet(idx, cap, ids) ==
  [c \in (DOMAIN idx) \cup {cap} |-> IF c = cap THEN ids ELSE idx[c]]

\* an insert that starts from a fresh set and forgets the ids already indexed
IndexCapabilityFresh(idx, cap, id) == IndexSet(idx, cap, <<id>>)

\* the callback of capabilities.forEach in /register
IndexCapability(idx, cap, id) == IndexSet(idx, cap, SetAdd(IndexGet(idx, cap), id))

RECURSIVE IndexCapabilities(_, _, _)
\* capabilities.forEach(...) in /register
IndexCapabilities(idx, caps, id) ==
  IF caps = <<>> THEN idx
  ELSE IndexCapabilities(IndexCapability(idx, Head(caps), id), Tail(caps), id)

\* the index after the seed's forEach: every entry is a fresh set holding the seed
SeedIndex == [c \in {SeedCapabilities[i] : i \in 1..Len(SeedCapabilities)} |-> <<SeedId>>]

(***************************************************************************)
(* inferCapabilities                                                       *)
(***************************************************************************)
KeywordMatches(taskLower, entry) ==
  \E k \in 1..Len(entry.keywords) : includes(taskLower, entry.keywords[k])

inferCapabilities(task) ==
  LET taskLower == toLowerCase(task)
      Hit(entry) == KeywordMatches(taskLower, entry)
      hits == SelectSeq(capabilityKeywords, Hit)
      capabilities == [i \in 1..Len(hits) |-> hits[i].capability]
  IN IF Len(capabilities) = 0 THEN <<"general">> ELSE capabilities

(***************************************************************************)
(* selectAgentsForTask                                                     *)
(* The loops carry st = [selected, remainingBudget].                       *)
(***************************************************************************)
\* mutation of Deduct: the price is not taken off the remaining budget
DeductKeep(remainingBudget, agent) == remainingBudget
\* remainingBudget -= agent.pricing.basePrice
Deduct(remainingBudget, agent) == remainingBudget - agent.basePrice

\* the body shared by both loops: agent && basePrice <= remainingBudget
TrySelect(reg, st, id) ==
  IF RegistryHas(reg, id) /\ RegistryGet(reg, id).basePrice <= st.remainingBudget
  THEN [selected |-> Append(st.selected, RegistryGet(reg, id)),
        remainingBudget |-> Deduct(st.remainingBudget, RegistryGet(reg, id))]
  ELSE st

RECURSIVE SelectPreferred(_, _, _)
\* for (const id of preferredAgents)
SelectPreferred(reg, st, preferredAgents) ==
  IF preferredAgents = <<>> THEN st
  ELSE SelectPreferred(reg, TrySelect(reg, st, Head(preferredAgents)),
                       Tail(preferredAgents))

\* selected.some((a) => a.id === id)
AlreadySelected(st, id) == \E i \in 1..Len(st.selected) : st.selected[i].id = id

RECURSIVE SelectFromIds(_, _, _)
\* for (const id of agentIds)
SelectFromIds(reg, st, agentIds) ==
  IF agentIds = <<>> THEN st
  ELSE SelectFromIds(reg,
                     IF AlreadySelected(st, Head(agentIds)) THEN st
                     ELSE TrySelect(reg, st, Head(agentIds)),
                     Tail(agentIds))

RECURSIVE SelectByCapability(_, _, _, _)
\* for (const cap of capabilities)
SelectByCapability(reg, idx, st, capabilities) ==
  IF capabilities = <<>> THEN st
  ELSE SelectByCapability(reg, idx,
                          IF Head(capabilities) \in DOMAIN idx
                          THEN SelectFromIds(reg, st, idx[Head(capabilities)])
                          ELSE st,
                          Tail(capabilities))

selectAgentsForTask(reg, idx, capabilities, budget, preferredAgents) ==
  LET st0 == [selected |-> <<>>, remainingBudget |-> budget]
      st1 == SelectPreferred(reg, st0, preferredAgents)
  IN SelectByCapability(reg, idx, st1, capabilities).selected

(***************************************************************************)
(* Requests.                                                               *)
(***************************************************************************)
NoReq == [op |-> "none"]
NoResp == [op |-> "none"]

\* sequences over S of length 0..n
SeqUpTo(S, n) == UNION {[1..k -> S] : k \in 0..n}

PreferredLists == SeqUpTo(PreferredIds, MaxPreferred)
Proofs == {Missing, "tx1"}

RegisterRequests ==
  { [op |-> "register", name |-> n, capsKind |-> ck.kind, capabilities |-> ck.value,
     owner |-> o, hasPricing |-> p.present, basePrice |-> p.basePrice] :
      n \in Names, o \in Owners,
      ck \in {[kind |-> "missing", value |-> <<>>]}
             \cup {[kind |-> "list", value |-> l] : l \in CapabilityLists}
             \cup {[kind |-> "string", value |-> <<s>>] : s \in CapabilityStrings},
      p \in {[present |-> FALSE, basePrice |-> 0]}
            \cup {[present |-> TRUE, basePrice |-> b] : b \in Prices} }

\* bodies whose task is a string and whose preferredAgents is a list;
\* taskKind and preferredKind are the JSON types of the two fields
TypedExecuteRequests ==
  { [op |-> "execute", task |-> t, taskKind |-> "string",
     hasBudget |-> b.present, budget |-> b.value, token |-> k,
     preferredAgents |-> pa, preferredKind |-> "list", proof |-> pr] :
      t \in Tasks, k \in Tokens, pa \in PreferredLists, pr \in Proofs,
      b \in {[present |-> FALSE, value |-> 0]}
            \cup {[present |-> TRUE, value |-> v] : v \in Budgets} }

\* the digits of a task that is the JSON number 42
TaskNumber == <<"4", "2">>

\* bodies with task: 42, and bodies with preferredAgents: 7 (whose
\* preferredAgents field holds no ids)
IllTypedExecuteRequests ==
  { [op |-> "execute", task |-> f.task, taskKind |-> f.taskKind,
     hasBudget |-> b.present, budget |-> b.value, token |-> k,
     preferredAgents |-> <<>>, preferredKind |-> f.preferredKind, proof |-> pr] :
      k \in Tokens, pr \in Proofs,
      b \in {[present |-> FALSE, value |-> 0], [present |-> TRUE, value |-> 100]},
      f \in {[task |-> TaskNumber, taskKind |-> "number", preferredKind |-> "list"],
             [task |-> TaskHello, taskKind |-> "string", preferredKind |-> "number"]} }

ExecuteRequests == TypedExecuteRequests \cup IllTypedExecuteRequests

\* capability lists handed to selectAgentsForTask
SelectCapabilities == {inferCapabilities(t) : t \in Tasks \ {<<>>}}

SelectRequests ==
  { [op |-> "select", capabilities |-> cs, budget |-> b, preferredAgents |-> pa] :
      cs \in SelectCapabilities, b \in Budgets, pa \in PreferredLists }

\* inputFrom of a step: <<>> when the caller gives none
InputFroms == {<<>>, <<"user">>}
Steps == [isNull : {FALSE}, agentId : StepIds, inputFrom : InputFroms]

\* a null element of the steps list
NullStep == [isNull |-> TRUE, agentId |-> Missing, inputFrom |-> <<>>]

\* steps lists that hold a null: [null] and [step, null]
NullStepLists == {<<NullStep>>} \cup {<<step, NullStep>> : step \in Steps}

\* the budget field of a chain body
ChainBudgets == {100}

ChainRequests ==
  { [op |-> "chain", stepsKind |-> sk.kind, steps |-> sk.value, token |-> k, proof |-> pr,
     hasBudget |-> b.present, budget |-> b.value] :
      k \in Tokens, pr \in Proofs,
      b \in {[present |-> FALSE, value |-> 0]}
            \cup {[present |-> TRUE, value |-> v] : v \in ChainBudgets},
      sk \in {[kind |-> "missing", value |-> <<>>], [kind |-> "string", value |-> <<>>]}
             \cup {[kind |-> "list", value |-> l] :
                      l \in SeqUpTo(Steps, MaxSteps) \cup NullStepLists} }

(***************************************************************************)
(* POST /register                                                          *)
(***************************************************************************)
\* !name || !capabilities || !owner || !pricing
RegisterInvalid(r) ==
  Falsy(r.name) \/ r.capsKind = "missing" \/ Falsy(r.owner) \/ ~r.hasPricing

\* Math.random in generateAgentId: any id, whatever the catalog holds
generateAgentId == GeneratedIds

NewAgent(r, id) ==
  [id |-> id, name |-> r.name, capabilities |-> r.capabilities,
   capsIsList |-> r.capsKind = "list", owner |-> r.owner, basePrice |-> r.basePrice]

Register ==
  /\ req = NoReq
  /\ nRegistered < MaxRegister
  /\ \E r \in RegisterRequests :
       /\ req' = r
       /\ IF RegisterInvalid(r)
          THEN /\ resp' = [op |-> "register", status |-> 400, id |-> Missing]
               /\ UNCHANGED <<agentRegistry, capabilityIndex, nRegistered, inflight, endpoints, invoices, pending>>
          ELSE \E id \in generateAgentId :
                 /\ agentRegistry' = RegistrySet(agentRegistry, NewAgent(r, id))
                 /\ nRegistered' = nRegistered + 1
                 /\ IF r.capsKind = "list"
                    THEN /\ capabilityIndex' =
                              IndexCapabilities(capabilityIndex, r.capabilities, id)
                         /\ resp' = [op |-> "register", status |-> 201, id |-> id]
                    ELSE \* a string has no forEach: TypeError after the agent is stored
                         /\ capabilityIndex' = capabilityIndex
                         /\ resp' = [op |-> "register", status |-> 500, id |-> id]
  /\ UNCHANGED <<inflight, endpoints, invoices, pending>>

(***************************************************************************)
(* selectAgentsForTask applied on its own                                  *)
(***************************************************************************)
Select ==
  /\ req = NoReq
  /\ \E r \in SelectRequests :
       /\ req' = r
       /\ resp' = [op |-> "select",
                   selected |-> selectAgentsForTask(agentRegistry, capabilityIndex,
                                  r.capabilities, r.budget, r.preferredAgents)]
  /\ UNCHANGED <<agentRegistry, capabilityIndex, nRegistered, inflight, endpoints, invoices, pending>>

(***************************************************************************)
(* POST /execute                                                           *)
(***************************************************************************)
\* !task || !budget || !token
ExecuteInvalid(r) ==
  r.task = <<>> \/ ~r.hasBudget \/ r.budget = 0 \/ Falsy(r.token)

\* mutation of NoPaymentProof: the payment gate never closes
NoPaymentProofNever(r) == FALSE
\* !paymentProof
NoPaymentProof(r) == Falsy(r.proof)

RECURSIVE CallAgentsStrict(_, _, _)
\* a call loop that also stops at an agent whose price is all that is left
CallAgentsStrict(selectedAgents, remainingBudget, agentResults) ==
  IF selectedAgents = <<>> \/ remainingBudget <= Head(selectedAgents).basePrice
  THEN agentResults
  ELSE CallAgentsStrict(Tail(selectedAgents),
                        remainingBudget - Head(selectedAgents).basePrice,
                        Append(agentResults, [agentId |-> Head(selectedAgents).id,
                                              cost |-> Head(selectedAgents).basePrice]))

RECURSIVE CallAgentsFeeInCost(_, _, _)
\* a call loop that records each cost with the platform fee already added
CallAgentsFeeInCost(selectedAgents, remainingBudget, agentResults) ==
  IF selectedAgents = <<>> \/ remainingBudget < Head(selectedAgents).basePrice
  THEN agentResults
  ELSE CallAgentsFeeInCost(Tail(selectedAgents),
                           remainingBudget - Head(selectedAgents).basePrice,
                           Append(agentResults,
                                  [agentId |-> Head(selectedAgents).id,
                                   cost |-> Head(selectedAgents).basePrice
                                            + PlatformFee(Head(selectedAgents).basePrice)]))

RECURSIVE CallAgents(_, _, _)
\* for (const agent of selectedAgents): break when the price exceeds what is left
CallAgents(selectedAgents, remainingBudget, agentResults) ==
  IF selectedAgents = <<>> \/ remainingBudget < Head(selectedAgents).basePrice
  THEN agentResults
  ELSE CallAgents(Tail(selectedAgents),
                  remainingBudget - Head(selectedAgents).basePrice,
                  Append(agentResults, [agentId |-> Head(selectedAgents).id,
                                        cost |-> Head(selectedAgents).basePrice]))

\* task.toLowerCase() in inferCapabilities on a task that is not a string, and
\* for (const id of preferredAgents) on a truthy value that is not iterable,
\* throw a TypeError
ExecuteThrows(r) == r.taskKind # "string" \/ r.preferredKind # "list"

\* returned names the return statement the handler left by; a payment demand
\* carries empty capabilities, selected and agentsUsed because the handler has
\* inferred, selected and called nothing when it returns; an exception that
\* no handler catches is answered 500
ExecuteResponse(reg, idx, r) ==
  IF ExecuteInvalid(r)
  THEN [op |-> "execute", status |-> 400, returned |-> "validation"]
  ELSE IF NoPaymentProof(r)
  THEN [op |-> "execute", status |-> 402, returned |-> "payment",
        amount |-> r.budget + PlatformFee(r.budget), token |-> r.token,
        agentBudget |-> r.budget, platformFee |-> PlatformFee(r.budget),
        total |-> r.budget + PlatformFee(r.budget),
        capabilities |-> <<>>, selected |-> <<>>, agentsUsed |-> <<>>]
  ELSE IF ExecuteThrows(r)
  THEN [op |-> "execute", status |-> 500, returned |-> "error"]
  ELSE LET capabilities == inferCapabilities(r.task)
           selectedAgents == selectAgentsForTask(reg, idx, capabilities, r.budget,
                                                 r.preferredAgents)
           agentResults == CallAgents(selectedAgents, r.budget, <<>>)
           totalCost == SumSeq([i \in 1..Len(agentResults) |-> agentResults[i].cost])
       IN [op |-> "execute", status |-> 200, returned |-> "result",
           resultStatus |-> "completed", capabilities |-> capabilities,
           selected |-> selectedAgents, agentsUsed |-> agentResults,
           totalCost |-> totalCost, platformFee |-> PlatformFee(totalCost)]

Execute ==
  /\ req = NoReq
  /\ \E r \in ExecuteRequests :
       /\ req' = r
       /\ resp' = ExecuteResponse(agentRegistry, capabilityIndex, r)
  /\ UNCHANGED <<agentRegistry, capabilityIndex, nRegistered, inflight, endpoints, invoices, pending>>

(***************************************************************************)
(* POST /chain                                                             *)
(***************************************************************************)
\* !steps || !Array.isArray(steps) || steps.length === 0
ChainInvalid(r) == r.stepsKind # "list" \/ Len(r.steps) = 0

\* a reference that names the step itself instead of the one before it
StepRefSelf(index) == <<"step", index + 1>>

\* `step${index}`
StepRef(index) == <<"step", index>>

\* a plan step that prices an agent it cannot resolve like the seed agent
ChainPlanStepDefaultPrice(reg, step, index) ==
  [step |-> index + 1,
   agentId |-> step.agentId,
   agentName |-> IF RegistryHas(reg, step.agentId) /\ ~Falsy(RegistryGet(reg, step.agentId).name)
                 THEN RegistryGet(reg, step.agentId).name ELSE "Unknown",
   estimatedCost |-> IF RegistryHas(reg, step.agentId)
                     THEN RegistryGet(reg, step.agentId).basePrice ELSE SeedPrice,
   inputFrom |-> IF step.inputFrom # <<>> THEN step.inputFrom
                 ELSE IF index > 0 THEN StepRef(index) ELSE <<"user">>]

\* steps.map((step, index) => ...), index counted from 0
ChainPlanStep(reg, step, index) ==
  [step |-> index + 1,
   agentId |-> step.agentId,
   agentName |-> IF RegistryHas(reg, step.agentId) /\ ~Falsy(RegistryGet(reg, step.agentId).name)
                 THEN RegistryGet(reg, step.agentId).name ELSE "Unknown",
   estimatedCost |-> IF RegistryHas(reg, step.agentId)
                     THEN RegistryGet(reg, step.agentId).basePrice ELSE 0,
   inputFrom |-> IF step.inputFrom # <<>> THEN step.inputFrom
                 ELSE IF index > 0 THEN StepRef(index) ELSE <<"user">>]

ChainPlan(reg, steps) == [i \in 1..Len(steps) |-> ChainPlanStep(reg, steps[i], i - 1)]

\* mutation of TotalEstimatedCost: an agent named by several steps is priced once
TotalEstimatedCostOncePerAgent(chainPlan) ==
  SumSeq([i \in 1..Len(chainPlan) |->
            IF \E j \in 1..(i - 1) : chainPlan[j].agentId = chainPlan[i].agentId
            THEN 0 ELSE chainPlan[i].estimatedCost])
\* chainPlan.reduce((sum, s) => sum + s.estimatedCost, 0)
TotalEstimatedCost(chainPlan) ==
  SumSeq([i \in 1..Len(chainPlan) |-> chainPlan[i].estimatedCost])

\* step.agentId on a null element of steps throws a TypeError
ChainThrows(r) == \E i \in 1..Len(r.steps) : r.steps[i].isNull

\* an exception that no handler catches is answered 500
ChainResponse(reg, r) ==
  IF ChainInvalid(r)
  THEN [op |-> "chain", status |-> 400, returned |-> "validation"]
  ELSE IF ChainThrows(r)
  THEN [op |-> "chain", status |-> 500, returned |-> "error"]
  ELSE LET chainPlan == ChainPlan(reg, r.steps)
           totalEstimatedCost == TotalEstimatedCost(chainPlan)
           platformFee == PlatformFee(totalEstimatedCost)
       IN IF Falsy(r.proof)
          THEN [op |-> "chain", status |-> 402, returned |-> "payment",
                amount |-> totalEstimatedCost + platformFee,
                token |-> IF Falsy(r.token) THEN "sBTC" ELSE r.token,
                chain |-> chainPlan, totalSteps |-> Len(r.steps)]
          ELSE [op |-> "chain", status |-> 200, returned |-> "result",
                resultStatus |-> "completed", chain |-> chainPlan,
                results |-> [i \in 1..Len(chainPlan) |->
                               [step |-> chainPlan[i].step, status |-> "completed",
                                agentName |-> chainPlan[i].agentName]],
                totalCost |-> totalEstimatedCost, platformFee |-> platformFee]

\* a chain handler that stores a placeholder agent for a first step it
\* cannot resolve
ChainStoringUnknown ==
  /\ req = NoReq
  /\ \E r \in ChainRequests :
       /\ req' = r
       /\ resp' = ChainResponse(agentRegistry, r)
       /\ agentRegistry' =
            IF ChainInvalid(r) \/ RegistryHas(agentRegistry, r.steps[1].agentId)
            THEN agentRegistry
            ELSE RegistrySet(agentRegistry,
                             [id |-> r.steps[1].agentId, name |-> "Unknown",
                              capabilities |-> <<>>, capsIsList |-> TRUE,
                              owner |-> Missing, basePrice |-> 0])
  /\ UNCHANGED <<capabilityIndex, nRegistered, inflight, endpoints, invoices, pending>>

Chain ==
  /\ req = NoReq
  /\ \E r \in ChainRequests :
       /\ req' = r
       /\ resp' = ChainResponse(agentRegistry, r)
  /\ UNCHANGED <<agentRegistry, capabilityIndex, nRegistered, inflight, endpoints, invoices, pending>>

(***************************************************************************)
(* The response is sent and the server is idle again.                      *)
(***************************************************************************)
Respond ==
  /\ req # NoReq
  /\ req' = NoReq
  /\ resp' = NoResp
  /\ UNCHANGED <<agentRegistry, capabilityIndex, nRegistered, inflight, endpoints, invoices, pending>>

\* the rows schema.sql inserts into the endpoints table (columns id, owner,
\* name, price, verified)
SeedEndpointOwner == "SP1734723Q6206N1BAWQCJ5H9YFQBEPB96DRQB7KC"
SeedEndpoints ==
  { [id |-> "sbtc-yield-vault", owner |-> SeedOwner, name |-> "sBTC Yield Vault",
     price |-> 1000, verified |-> TRUE],
    [id |-> "sbtc-yield-calc", owner |-> SeedEndpointOwner,
     name |-> "sBTC Yield Calculator", price |-> 50000, verified |-> TRUE],
    [id |-> "coin-refill", owner |-> SeedEndpointOwner, name |-> "Coin Refill",
     price |-> 1000000, verified |-> TRUE] }

\* new Map() of the payment routes
NoInvoices == [id \in {} |-> Missing]

Init ==
  /\ agentRegistry = <<SeedAgent>>
  /\ capabilityIndex = SeedIndex
  /\ nRegistered = 0
  /\ req = NoReq
  /\ resp = NoResp
  /\ inflight = <<>>
  /\ endpoints = SeedEndpoints
  /\ invoices = NoInvoices
  /\ pending = <<>>

Next == Register \/ Select \/ Execute \/ Chain \/ Respond

Spec == Init /\ [][Next]_vars

(***************************************************************************)
(* Properties.                                                             *)
(***************************************************************************)
\* f is the smallest integer not less than 10% of x
IsCeilTenth(f, x) == 10 * f >= x /\ 10 * (f - 1) < x

\* sum of basePrice over a sequence of agents
SelectedCost(agents) == SumSeq([i \in 1..Len(agents) |-> agents[i].basePrice])

NoFreeAgent == \A i \in 1..Len(agentRegistry) : agentRegistry[i].basePrice # 0

\* C1: whatever the catalog, the capability list, the budget and the preferred
\* list, the agents returned by select cost together at most the budget (also
\* where /execute calls it); with budget 0 and no agent priced 0 nothing is
\* selected.
C1_SelectionWithinBudget ==
  /\ resp.op = "select" =>
       /\ SelectedCost(resp.selected) <= req.budget
       /\ (req.budget = 0 /\ NoFreeAgent) => resp.selected = <<>>
  /\ (resp.op = "execute" /\ resp.status = 200) =>
       SelectedCost(resp.selected) <= req.budget

\* select returned two different agents within a positive budget and left out
\* an indexed agent of a requested capability that no longer fits
C1_Witness ==
  /\ resp.op = "select"
  /\ req.budget > 0
  /\ Len(resp.selected) = 2
  /\ resp.selected[1].id # resp.selected[2].id
  /\ resp.selected[1].basePrice > 0 /\ resp.selected[2].basePrice > 0
  /\ SelectedCost(resp.selected) <= req.budget
  /\ \E c \in DOMAIN capabilityIndex :
       /\ \E i \in 1..Len(req.capabilities) : req.capabilities[i] = c
       /\ \E k \in 1..Len(capabilityIndex[c]) :
            /\ RegistryHas(agentRegistry, capabilityIndex[c][k])
            /\ \A j \in 1..Len(resp.selected) :
                 resp.selected[j].id # capabilityIndex[c][k]
            /\ RegistryGet(agentRegistry, capabilityIndex[c][k]).basePrice
                 > req.budget - SelectedCost(resp.selected)

\* C2: no agent id appears twice in the sequence select returns.
C2_NoDuplicateSelected ==
  resp.op = "select" =>
    \A i, j \in 1..Len(resp.selected) :
      i # j => resp.selected[i].id # resp.selected[j].id

\* C3: every capability of every agent in the catalog has an index entry that
\* holds the agent's id.
C3_IndexConsistency ==
  \A i \in 1..Len(agentRegistry) :
    \A k \in 1..Len(agentRegistry[i].capabilities) :
      LET cap == agentRegistry[i].capabilities[k]
      IN /\ cap \in DOMAIN capabilityIndex
         /\ \E n \in 1..Len(capabilityIndex[cap]) :
              capabilityIndex[cap][n] = agentRegistry[i].id

\* C4: an /execute request that passed entry validation and carries no payment
\* proof is answered 402 with amount = budget + platformFee, platformFee the
\* smallest integer not less than 10% of budget, agentBudget = budget and
\* total = amount.
C4_PaymentDemandAmount ==
  (resp.op = "execute" /\ resp.returned # "validation" /\ Falsy(req.proof)) =>
    /\ resp.status = 402
    /\ IsCeilTenth(resp.platformFee, req.budget)
    /\ resp.amount = req.budget + resp.platformFee
    /\ resp.agentBudget = req.budget
    /\ resp.total = resp.amount

\* budget 100 without proof is quoted 110
C4_Witness ==
  /\ resp.op = "execute" /\ Falsy(req.proof)
  /\ req.hasBudget /\ req.budget = 100
  /\ resp.status = 402 /\ resp.amount = 110 /\ resp.platformFee = 10

\* an ExecutionRequest as the data model types it: task a string and
\* preferredAgents, when given, a sequence of ids
IsExecutionRequest(r) == r.taskKind = "string" /\ r.preferredKind = "list"

C6_ValidationExactlyMissing ==
  resp.op = "execute" =>
    (resp.status = 400 <=> (req.task = <<>> \/ ~req.hasBudget \/ Falsy(req.token)))

\* the agent used under an id
UsedAgentCovers(agentId, cap) ==
  /\ RegistryHas(agentRegistry, agentId)
  /\ \E k \in 1..Len(RegistryGet(agentRegistry, agentId).capabilities) :
       RegistryGet(agentRegistry, agentId).capabilities[k] = cap

\* C7: an execution result says "completed" only when every inferred capability
\* is covered by an agent that was used.
C7_CompletedMeansCovered ==
  (resp.op = "execute" /\ resp.status = 200 /\ resp.resultStatus = "completed") =>
    \A i \in 1..Len(resp.capabilities) :
      \E j \in 1..Len(resp.agentsUsed) :
        UsedAgentCovers(resp.agentsUsed[j].agentId, resp.capabilities[i])

\* the price of the agent a step resolves to, nothing for an unresolved step
ResolvedPrice(step) ==
  IF RegistryHas(agentRegistry, step.agentId)
  THEN RegistryGet(agentRegistry, step.agentId).basePrice ELSE 0

StepsCost(steps) == SumSeq([i \in 1..Len(steps) |-> ResolvedPrice(steps[i])])

\* every element of the steps list is a step
AllSteps(steps) == \A i \in 1..Len(steps) : ~steps[i].isNull

\* C8: for a chain with a non-empty list of steps, totalCost is the sum over the
\* steps of the resolved agent's basePrice (a repeated step counted every
\* time), platformFee the smallest integer not less than 10% of it, and the
\* amount demanded without proof is totalCost + platformFee.
C8_ChainCost ==
  ( /\ resp.op = "chain" /\ req.stepsKind = "list" /\ Len(req.steps) > 0
    /\ AllSteps(req.steps) ) =>
    /\ Falsy(req.proof) =>
         /\ resp.status = 402
         /\ IsCeilTenth(resp.amount - StepsCost(req.steps), StepsCost(req.steps))
    /\ ~Falsy(req.proof) =>
         /\ resp.status = 200
         /\ resp.totalCost = StepsCost(req.steps)
         /\ IsCeilTenth(resp.platformFee, resp.totalCost)

\* steps priced 300 and 700 are quoted 1000 + 100
C8_Witness ==
  /\ resp.op = "chain" /\ resp.status = 402
  /\ Len(resp.chain) = 2
  /\ resp.chain[1].estimatedCost = 300 /\ resp.chain[2].estimatedCost = 700
  /\ resp.amount = 1100

\* C9: a /register request answered with an error leaves the catalog and the
\* index as they were.
C9_FailedRegisterChangesNothing ==
  [][(resp'.op = "register" /\ resp'.status # 201) =>
       (agentRegistry' = agentRegistry /\ capabilityIndex' = capabilityIndex)]_vars

\* C10: a successful /register takes an id no agent of the catalog has, the
\* catalog grows by one record, and every agent already stored stays as it is.
C10_FreshIdAndStableRecords ==
  [][(resp'.op = "register" /\ resp'.status = 201) =>
       /\ ~RegistryHas(agentRegistry, resp'.id)
       /\ Len(agentRegistry') = Len(agentRegistry) + 1
       /\ \A i \in 1..Len(agentRegistry) :
            /\ RegistryHas(agentRegistry', agentRegistry[i].id)
            /\ RegistryGet(agentRegistry', agentRegistry[i].id) = agentRegistry[i]]_vars

(***************************************************************************)
(* C11: every agent in the catalog has a non-empty capabilities list       *)
(* (register never stores an agent whose capabilities list is empty).      *)
(* The register handler tests only !capabilities, and [] is not falsy.     *)
(***************************************************************************)
C11_NonEmptyCapabilities ==
  \A i \in 1..Len(agentRegistry) :
    agentRegistry[i].capsIsList => Len(agentRegistry[i].capabilities) > 0

(***************************************************************************)
(* Overlapping POST /register requests.  The handler has one point at      *)
(* which it can be suspended, await c.req.json(); from the parsed body to  *)
(* its return it runs on the single JavaScript thread without yielding.    *)
(* A slot of inflight is one handler: pc "json" while it waits for its     *)
(* body, "done" when it has returned.  Handlers resume in any order.       *)
(***************************************************************************)
ConcurrentRequests ==
  {r \in RegisterRequests : ~RegisterInvalid(r) /\ r.basePrice = 5}

AcceptRegister ==
  /\ req = NoReq
  /\ Len(inflight) < MaxInflight
  /\ \E r \in ConcurrentRequests :
       inflight' = Append(inflight, [request |-> r, pc |-> "json",
                                     status |-> 0, id |-> Missing])
  /\ UNCHANGED <<agentRegistry, capabilityIndex, nRegistered, req, resp, endpoints, invoices, pending>>

ResumeRegister ==
  /\ req = NoReq
  /\ \E i \in 1..Len(inflight) :
       /\ inflight[i].pc = "json"
       /\ LET r == inflight[i].request IN
          \E id \in generateAgentId :
            /\ agentRegistry' = RegistrySet(agentRegistry, NewAgent(r, id))
            /\ nRegistered' = nRegistered + 1
            /\ IF r.capsKind = "list"
               THEN /\ capabilityIndex' =
                         IndexCapabilities(capabilityIndex, r.capabilities, id)
                    /\ inflight' = [inflight EXCEPT ![i] =
                         [request |-> r, pc |-> "done", status |-> 201, id |-> id]]
               ELSE /\ capabilityIndex' = capabilityIndex
                    /\ inflight' = [inflight EXCEPT ![i] =
                         [request |-> r, pc |-> "done", status |-> 500, id |-> id]]
  /\ UNCHANGED <<req, resp, endpoints, invoices, pending>>

NextConcurrent == AcceptRegister \/ ResumeRegister

SpecConcurrent == Init /\ [][NextConcurrent]_vars

AllReturned ==
  /\ Len(inflight) >= 2
  /\ \A i \in 1..Len(inflight) : inflight[i].pc = "done"

Declares(slot, cap) ==
  /\ slot.request.capsKind = "list"
  /\ \E k \in 1..Len(slot.request.capabilities) : slot.request.capabilities[k] = cap

Indexed(cap, id) ==
  \E k \in 1..Len(IndexGet(capabilityIndex, cap)) : IndexGet(capabilityIndex, cap)[k] = id

(***************************************************************************)
(* C12: under every interleaving of overlapping register requests, once    *)
(* all of them have returned, the index entry of every capability they     *)
(* declared holds the id of every agent registered for it, and the seed    *)
(* agent is still in each of its entries: no index insert is lost.         *)
(***************************************************************************)
C12_NoLostInsert ==
  AllReturned =>
    /\ \A i \in 1..Len(inflight) :
         \A cap \in {"summarize", "blockchain-query"} :
           (inflight[i].status = 201 /\ Declares(inflight[i], cap))
             => Indexed(cap, inflight[i].id)
    /\ \A k \in 1..Len(SeedCapabilities) : Indexed(SeedCapabilities[k], SeedId)

\* two handlers declaring summarize returned with different ids, the one
\* accepted second having been resumed first
C12_Witness ==
  /\ AllReturned
  /\ inflight[1].status = 201 /\ inflight[2].status = 201
  /\ Declares(inflight[1], "summarize") /\ Declares(inflight[2], "summarize")
  /\ inflight[1].id # inflight[2].id
  /\ IndexGet(capabilityIndex, "summarize") = <<inflight[2].id, inflight[1].id>>

(***************************************************************************)
(* inferCapabilities applied on its own to task strings put together from  *)
(* up to MaxWords pieces, so that keywords occur in upper case, inside     *)
(* longer words and across pieces ("look" + " up").                        *)
(***************************************************************************)
Words ==
  { <<"T","L","D","R">>, <<"s","u","m","m","a","r","y">>, <<"t","a","g">>,
    <<"F","i","n","d">>, <<"l","o","o","k">>, <<" ","u","p">>, <<"x">> }

RECURSIVE Concat(_)
Concat(ws) == IF ws = <<>> THEN <<>> ELSE Head(ws) \o Concat(Tail(ws))

InferTasks == {Concat(ws) : ws \in SeqUpTo(Words, MaxWords)}

Infer ==
  /\ req = NoReq
  /\ \E t \in InferTasks :
       /\ req' = [op |-> "infer", task |-> t]
       /\ resp' = [op |-> "infer", capabilities |-> inferCapabilities(t)]
  /\ UNCHANGED <<agentRegistry, capabilityIndex, nRegistered, inflight, endpoints, invoices, pending>>

NextInfer == Infer \/ Respond

SpecInfer == Init /\ [][NextInfer]_vars

\* reference reading of "substring", written apart from includes
IsSubstring(kw, t) ==
  \E pre \in 0..Len(t) :
    /\ pre + Len(kw) <= Len(t)
    /\ \A j \in 1..Len(kw) : t[pre + j] = kw[j]

InResult(cap) == \E i \in 1..Len(resp.capabilities) : resp.capabilities[i] = cap

\* the lower-cased task, character by character, written apart from toLowerCase
LowerTask == [i \in 1..Len(req.task) |->
                CASE req.task[i] = "T" -> "t" [] req.task[i] = "L" -> "l"
                  [] req.task[i] = "D" -> "d" [] req.task[i] = "R" -> "r"
                  [] req.task[i] = "F" -> "f" [] OTHER -> req.task[i]]

KeywordOccurs(e) ==
  \E k \in 1..Len(capabilityKeywords[e].keywords) :
    IsSubstring(capabilityKeywords[e].keywords[k], LowerTask)

(***************************************************************************)
(* C15: inferCapabilities returns a non-empty list without duplicates; a   *)
(* capability is in it exactly when one of its keywords is a substring of  *)
(* the lower-cased task; "general" is returned exactly when no keyword     *)
(* matches, and then it is the only element.                               *)
(***************************************************************************)
C15_InferenceTotality ==
  req.op = "infer" =>
    /\ Len(resp.capabilities) > 0
    /\ \A i, j \in 1..Len(resp.capabilities) :
         resp.capabilities[i] = resp.capabilities[j] => i = j
    /\ \A e \in 1..Len(capabilityKeywords) :
         InResult(capabilityKeywords[e].capability) <=> KeywordOccurs(e)
    /\ InResult("general") <=> (\A e \in 1..Len(capabilityKeywords) : ~KeywordOccurs(e))
    /\ InResult("general") => resp.capabilities = <<"general">>

\* "xTLDRtag": upper-case and embedded keywords of two capabilities
C15_Witness ==
  /\ req.op = "infer"
  /\ req.task = <<"x","T","L","D","R","t","a","g">>
  /\ resp.capabilities = <<"summarize", "classify">>

\* "look up" is found across two pieces; nothing matches "xlook"
C15_WitnessGeneral ==
  /\ req.op = "infer"
  /\ req.task = <<"x","l","o","o","k">>
  /\ resp.capabilities = <<"general">>

(***************************************************************************)
(* buildExecutionPlan                                                      *)
(* Its argument is the list of recommendations: id, name,                  *)
(* matchedCapabilities and pricing.basePrice of each are read.             *)
(***************************************************************************)
\* a slice that keeps the whole list
SliceAll(s, n) == s

\* Array.prototype.slice(0, n)
Slice(s, n) == SubSeq(s, 1, IF Len(s) < n THEN Len(s) ELSE n)

buildExecutionPlan(task, agents) ==
  IF Len(agents) = 0
  THEN [steps |-> <<>>, totalCost |-> 0, estimatedTime |-> 0]
  ELSE LET first == Slice(agents, PlanLimit)
           steps == [k \in 1..Len(first) |->
                       [step |-> k,
                        agentId |-> first[k].id,
                        agentName |-> first[k].name,
                        action |-> first[k].matchedCapabilities,
                        estimatedCost |-> first[k].basePrice,
                        estimatedTime |-> StepTimeBase + (k - 1) * StepTimeIncrement]]
       IN [steps |-> steps,
           totalCost |-> SumSeq([k \in 1..Len(steps) |-> steps[k].estimatedCost]),
           estimatedTime |-> SumSeq([k \in 1..Len(steps) |-> steps[k].estimatedTime])]

\* recommendations handed to buildExecutionPlan on its own
PlanAgents ==
  { [id |-> "agent_a", name |-> "Bot", matchedCapabilities |-> <<"summarize">>,
     basePrice |-> 5],
    [id |-> SeedId, name |-> "sBTC Yield Agent",
     matchedCapabilities |-> <<"blockchain-query", "data-transform">>,
     basePrice |-> SeedPrice] }

BuildPlan ==
  /\ req = NoReq
  /\ \E agents \in SeqUpTo(PlanAgents, MaxPlanAgents) :
       /\ req' = [op |-> "plan", agents |-> agents]
       /\ resp' = [op |-> "plan", plan |-> buildExecutionPlan(<<>>, agents)]
  /\ UNCHANGED <<agentRegistry, capabilityIndex, nRegistered, inflight, endpoints, invoices, pending>>

NextPlan == BuildPlan \/ Respond

SpecPlan == Init /\ [][NextPlan]_vars

(***************************************************************************)
(* C16: the plan has min(5, n) steps; step k is the k-th input agent with  *)
(* estimatedCost its basePrice and estimatedTime 500 + (k-1)*200, strictly *)
(* increasing; totalCost and estimatedTime are the sums over the steps; an *)
(* empty list gives the empty plan with zero cost and zero time.           *)
(***************************************************************************)
C16_PlanReference ==
  req.op = "plan" =>
    LET n == Len(req.agents)
        steps == resp.plan.steps
        m == Len(steps)
    IN /\ m = (IF n < 5 THEN n ELSE 5)
       /\ \A k \in 1..m :
            /\ steps[k].step = k
            /\ steps[k].agentId = req.agents[k].id
            /\ steps[k].agentName = req.agents[k].name
            /\ steps[k].estimatedCost = req.agents[k].basePrice
            /\ steps[k].estimatedTime = 500 + (k - 1) * 200
       /\ \A k \in 1..(m - 1) : steps[k].estimatedTime < steps[k + 1].estimatedTime
       /\ resp.plan.totalCost = SumSeq([k \in 1..m |-> req.agents[k].basePrice])
       /\ resp.plan.estimatedTime = 500 * m + 100 * m * (m - 1)
       /\ n = 0 => resp.plan = [steps |-> <<>>, totalCost |-> 0, estimatedTime |-> 0]

\* six agents in: five steps out, the sixth agent is in no step and in no total
C16_Witness ==
  /\ req.op = "plan"
  /\ Len(req.agents) = 6
  /\ req.agents[6].basePrice = SeedPrice
  /\ req.agents[1].basePrice = 5
  /\ Len(resp.plan.steps) = 5
  /\ resp.plan.steps[5].estimatedTime = 1300
  /\ resp.plan.estimatedTime = 4500
  /\ resp.plan.totalCost = SumSeq([k \in 1..5 |-> req.agents[k].basePrice])

(***************************************************************************)
(* POST /recommend                                                         *)
(* A score is the fraction matched.length / neededCapabilities.length,     *)
(* kept as the pair of its two lengths.                                    *)
(***************************************************************************)
TaskPleaseSummarize ==
  <<"p","l","e","a","s","e"," ","s","u","m","m","a","r","i","z","e"," ","t","h","i","s">>

RecommendTasks == {<<>>, TaskPleaseSummarize, TaskWalletFormat, TaskSummarizeBalance}

\* the capabilities field of the body when the caller supplies it
RecommendCapabilities == {<<>>, <<"summarize", "summarize">>}

RecommendRequests ==
  { [op |-> "recommend", task |-> t, hasBudget |-> b.present, budget |-> b.value,
     capsKind |-> ck.kind, capabilities |-> ck.value] :
      t \in RecommendTasks,
      b \in {[present |-> FALSE, value |-> 0]}
            \cup {[present |-> TRUE, value |-> v] : v \in Budgets},
      ck \in {[kind |-> "missing", value |-> <<>>]}
             \cup {[kind |-> "list", value |-> l] : l \in RecommendCapabilities} }

\* Array.prototype.includes
ListIncludes(list, x) == \E i \in 1..Len(list) : list[i] = x

\* agent.capabilities.filter((cap) => neededCapabilities.includes(cap))
Matched(agent, neededCapabilities) ==
  LET In(cap) == ListIncludes(neededCapabilities, cap)
  IN SelectSeq(agent.capabilities, In)

\* the callback of agentRegistry.forEach
MatchingAgents(reg, neededCapabilities) ==
  LET entries == [i \in 1..Len(reg) |->
                    [agent |-> reg[i],
                     matchedCapabilities |-> Matched(reg[i], neededCapabilities),
                     score |-> [num |-> Len(Matched(reg[i], neededCapabilities)),
                                den |-> Len(neededCapabilities)]]]
      Hit(m) == Len(m.matchedCapabilities) > 0
  IN SelectSeq(entries, Hit)

\* a.score > b.score for scores num / den with den > 0
ScoreGreater(a, b) == a.num * b.den > b.num * a.den

\* x goes behind every entry whose score is not smaller: the sort is stable
RECURSIVE InsertByScore(_, _)
InsertByScore(sorted, x) ==
  IF sorted = <<>> THEN <<x>>
  ELSE IF ScoreGreater(x.score, Head(sorted).score)
       THEN <<x>> \o sorted
       ELSE <<Head(sorted)>> \o InsertByScore(Tail(sorted), x)

\* matchingAgents.sort((a, b) => b.score - a.score)
RECURSIVE SortByScore(_)
SortByScore(s) ==
  IF s = <<>> THEN <<>>
  ELSE InsertByScore(SortByScore(SubSeq(s, 1, Len(s) - 1)), s[Len(s)])

\* score and score * 100 are IEEE 754 doubles.  A positive double is kept as
\* [m, e]: its value is M * 2^(e - 52) for the 53-bit significand
\* M = m[1] * 2^45 + m[2] * 2^30 + m[3] * 2^15 + m[4], 2^52 <= M < 2^53, so
\* m[1] is in 128..255 and the other three limbs are below Limb.  The
\* operators cover quotients below 256 of numbers below 2^16, which is every
\* score of a list the model or a run can hold.
Limb == 32768

\* the largest k with 2^k <= q, for q >= 1
RECURSIVE Log2Floor(_)
Log2Floor(q) == IF q < 2 THEN 0 ELSE 1 + Log2Floor(q \div 2)

\* the smallest z with n * 2^z >= d, for 0 < n < d
RECURSIVE ShiftToReach(_, _)
ShiftToReach(n, d) == IF n >= d THEN 0 ELSE 1 + ShiftToReach(2 * n, d)

\* M + 1, renormalised when the sum is 2^53
NextDouble(x) ==
  LET c4 == IF x.m[4] + 1 = Limb THEN 1 ELSE 0
      c3 == IF x.m[3] + c4 = Limb THEN 1 ELSE 0
      c2 == IF x.m[2] + c3 = Limb THEN 1 ELSE 0
      top == x.m[1] + c2
  IN IF top = 256
     THEN [m |-> <<128, 0, 0, 0>>, e |-> x.e + 1]
     ELSE [m |-> <<top, (x.m[2] + c3) % Limb, (x.m[3] + c4) % Limb,
                   (x.m[4] + 1) % Limb>>,
           e |-> x.e]

\* round to nearest, ties to even: the exact value is x plus rem / unit of
\* the last place of x, with 0 <= rem < unit
RoundToDouble(x, rem, unit) ==
  IF 2 * rem > unit \/ (2 * rem = unit /\ x.m[4] % 2 = 1) THEN NextDouble(x) ELSE x

\* matched.length / neededCapabilities.length for n > 0 and d > 0: long
\* division of n * 2^(52 - e) by d, one limb at a time
DoubleDivide(n, d) ==
  LET e == IF n >= d THEN Log2Floor(n \div d) ELSE 0 - ShiftToReach(n, d)
      n1 == n * (2 ^ (7 - e))
      r1 == n1 % d
      r2 == (r1 * Limb) % d
      r3 == (r2 * Limb) % d
      r4 == (r3 * Limb) % d
  IN RoundToDouble([m |-> <<n1 \div d, (r1 * Limb) \div d, (r2 * Limb) \div d,
                            (r3 * Limb) \div d>>,
                    e |-> e],
                   r4, d)

\* x * k for a double x and a natural number k in 1..127: the exact product
\* limb by limb, then the bits below the 53rd rounded away
DoubleTimes(x, k) ==
  LET p4 == x.m[4] * k
      p3 == x.m[3] * k + p4 \div Limb
      p2 == x.m[2] * k + p3 \div Limb
      p1 == x.m[1] * k + p2 \div Limb
      sh == Log2Floor(p1) - 7
      low == 2 ^ sh
      high == Limb \div low
  IN RoundToDouble([m |-> <<p1 \div low,
                            (p1 % low) * high + (p2 % Limb) \div low,
                            (p2 % low) * high + (p3 % Limb) \div low,
                            (p3 % low) * high + (p4 % Limb) \div low>>,
                    e |-> x.e + sh],
                   p4 % low, low)

\* M shifted right by g bits, g in 0..52, for a result below 2^31
ShiftRight(m, g) ==
  LET Part(i) == IF 15 * (4 - i) >= g
                 THEN m[i] * (2 ^ (15 * (4 - i) - g))
                 ELSE IF g - 15 * (4 - i) >= 15 THEN 0
                 ELSE m[i] \div (2 ^ (g - 15 * (4 - i)))
  IN Part(1) + Part(2) + Part(3) + Part(4)

\* Math.round of a positive double below 2^29: the nearest integer, a half
\* goes up
MathRound(y) ==
  IF y.e < 0 - 1 THEN 0
  ELSE IF y.e = 0 - 1 THEN 1
  ELSE (ShiftRight(y.m, 51 - y.e) + 1) \div 2

\* Math.round(score * 100)
MatchScore(score) == MathRound(DoubleTimes(DoubleDivide(score.num, score.den), 100))

\* !budget || m.agent.pricing.basePrice <= budget
WithinRecommendBudget(r, m) ==
  ~r.hasBudget \/ r.budget = 0 \/ m.agent.basePrice <= r.budget

RecommendResponse(reg, r) ==
  IF r.task = <<>>
  THEN [op |-> "recommend", status |-> 400]
  ELSE IF \E i \in 1..Len(reg) : ~reg[i].capsIsList
  THEN \* a string has no filter: TypeError in the forEach callback
       [op |-> "recommend", status |-> 500]
  ELSE
    LET neededCapabilities ==
          IF r.capsKind = "list" THEN r.capabilities ELSE inferCapabilities(r.task)
        matchingAgents == SortByScore(MatchingAgents(reg, neededCapabilities))
        Affordable(m) == WithinRecommendBudget(r, m)
        kept == SelectSeq(matchingAgents, Affordable)
        recommendations ==
          [i \in 1..Len(kept) |->
             [id |-> kept[i].agent.id,
              name |-> kept[i].agent.name,
              matchScore |-> MatchScore(kept[i].score),
              matchedCapabilities |-> kept[i].matchedCapabilities,
              basePrice |-> kept[i].agent.basePrice]]
        executionPlan == buildExecutionPlan(r.task, recommendations)
    IN [op |-> "recommend", status |-> 200,
        inferredCapabilities |-> neededCapabilities,
        recommendations |-> Slice(recommendations, RecommendLimit),
        executionPlan |-> executionPlan,
        estimatedCost |-> executionPlan.totalCost]

Recommend ==
  /\ req = NoReq
  /\ \E r \in RecommendRequests :
       /\ req' = r
       /\ resp' = RecommendResponse(agentRegistry, r)
  /\ UNCHANGED <<agentRegistry, capabilityIndex, nRegistered, inflight, endpoints, invoices, pending>>

NextRecommend == Register \/ Recommend \/ Respond

SpecRecommend == Init /\ [][NextRecommend]_vars

\* the set of tags of a capability list
CapSet(list) == {list[i] : i \in 1..Len(list)}

\* position of an agent in the catalog (insertion order)
CatalogPosition(id) == CHOOSE i \in 1..Len(agentRegistry) : agentRegistry[i].id = id

\* round(100 * num / den), halves upwards
Percent(num, den) == (200 * num + den) \div (2 * den)

(***************************************************************************)
(* C17: for every answered recommend call each recommended agent's score   *)
(* is |agent capabilities /\ needed| / |needed|, so matchScore is in       *)
(* 1..100 and is 100 exactly when the agent covers every needed            *)
(* capability; agents matching nothing are not recommended;                *)
(* recommendations are in descending score order and equal scores keep     *)
(* catalog order; an agent registered with [summarize] is recommended with *)
(* matchScore 100 for "please summarize this".                             *)
(***************************************************************************)
C17_RecommendScoring ==
  (req.op = "recommend" /\ resp.status = 200) =>
    LET needed == CapSet(resp.inferredCapabilities)
        recs == resp.recommendations
        Caps(id) == CapSet(RegistryGet(agentRegistry, id).capabilities)
        Common(id) == Caps(id) \cap needed
    IN /\ \A i \in 1..Len(recs) :
            /\ RegistryHas(agentRegistry, recs[i].id)
            /\ recs[i].matchScore =
                 Percent(Cardinality(Common(recs[i].id)), Cardinality(needed))
            /\ recs[i].matchScore \in 1..100
            /\ recs[i].matchScore = 100 <=> needed \subseteq Caps(recs[i].id)
       /\ \A k \in 1..Len(agentRegistry) :
            CapSet(agentRegistry[k].capabilities) \cap needed = {}
              => \A i \in 1..Len(recs) : recs[i].id # agentRegistry[k].id
       /\ \A i, j \in 1..Len(recs) :
            i < j =>
              /\ recs[i].matchScore >= recs[j].matchScore
              /\ Cardinality(Common(recs[i].id)) = Cardinality(Common(recs[j].id))
                   => CatalogPosition(recs[i].id) < CatalogPosition(recs[j].id)
       /\ (req.task = TaskPleaseSummarize /\ req.capsKind = "missing") =>
            /\ resp.inferredCapabilities = <<"summarize">>
            /\ \A k \in 1..Len(agentRegistry) :
                 ( /\ agentRegistry[k].capabilities = <<"summarize">>
                   /\ (req.hasBudget => agentRegistry[k].basePrice <= req.budget) )
                   => \E i \in 1..Len(recs) :
                        /\ recs[i].id = agentRegistry[k].id
                        /\ recs[i].matchScore = 100

(***************************************************************************)
(* C18: when a recommend request supplies a budget (0 included), every     *)
(* returned recommendation and every step of the returned plan is an agent *)
(* with basePrice <= budget, at most 10 recommendations are returned, and  *)
(* the plan's steps are the first of them in the same order.               *)
(***************************************************************************)
C18_RecommendWithinBudget ==
  (req.op = "recommend" /\ resp.status = 200 /\ req.hasBudget) =>
    /\ \A i \in 1..Len(resp.recommendations) :
         resp.recommendations[i].basePrice <= req.budget
    /\ \A k \in 1..Len(resp.executionPlan.steps) :
         /\ resp.executionPlan.steps[k].estimatedCost <= req.budget
         /\ k <= Len(resp.recommendations)
         /\ resp.executionPlan.steps[k].agentId = resp.recommendations[k].id
    /\ Len(resp.recommendations) <= 10

(***************************************************************************)
(* C19: the budget is the maximum spend for a chain: for a chain request   *)
(* that carries a budget, the totalCost charged, and the amount demanded   *)
(* when no proof is attached, do not exceed the budget.                    *)
(* The chain handler reads budget from the body and never uses it.         *)
(***************************************************************************)
C19_ChainWithinBudget ==
  (req.op = "chain" /\ req.hasBudget) =>
    /\ resp.status = 200 => resp.totalCost <= req.budget
    /\ resp.status = 402 => resp.amount <= req.budget

(***************************************************************************)
(* The endpoint registry (src/src/routes/registry.ts).  endpoints is the   *)
(* D1 table of the same name, a set of rows with primary key id; of a row  *)
(* the columns id, owner, name, price and verified are kept.  Each         *)
(* statement sent to the database runs on its own: a handler that awaits   *)
(* a SELECT and then a write can be overtaken by other handlers between    *)
(* the two.  pending holds the DELETE and PUT handlers that have passed    *)
(* the tests on their SELECT and have not returned yet.                    *)
(***************************************************************************)
MaxPending == 2

EndpointIds == {"ep_a", "ep_b"}
EndpointOwners == {"SP1", "SP2"}

\* the ids DELETE and PUT are called with: the generated ones and a seeded row
EndpointPathIds == EndpointIds \cup {"coin-refill"}

\* a body of POST /registry/register with every required field
FullEndpointRequest(o) ==
  [op |-> "registerEndpoint", url |-> "https://svc", name |-> "Bot", owner |-> o,
   hasPrice |-> TRUE, price |-> 5, token |-> "sBTC"]

\* the full bodies of the two owners and the bodies that lack one field
EndpointRequests ==
  { FullEndpointRequest(o) : o \in EndpointOwners } \cup
  { [FullEndpointRequest("SP1") EXCEPT !.url = Missing],
    [FullEndpointRequest("SP1") EXCEPT !.name = Missing],
    [FullEndpointRequest("SP1") EXCEPT !.owner = Missing],
    [FullEndpointRequest("SP1") EXCEPT !.hasPrice = FALSE, !.price = 0],
    [FullEndpointRequest("SP1") EXCEPT !.token = Missing] }

\* the X-Owner-Address header, Missing when it is not sent
OwnerHeaders == {Missing} \cup EndpointOwners

\* the JSON body of PUT /:id: a field that is Missing is undefined
Updates ==
  { [name |-> "New", hasPrice |-> FALSE, price |-> 0, owner |-> "SP2"],
    [name |-> Missing, hasPrice |-> TRUE, price |-> 7, owner |-> Missing] }

\* a DELETE has no body
NoUpdates == [name |-> Missing, hasPrice |-> FALSE, price |-> 0, owner |-> Missing]

\* SELECT * FROM endpoints WHERE id = ?
HasRow(table, id) == \E row \in table : row.id = id
Row(table, id) == CHOOSE row \in table : row.id = id

\* !url || !name || !owner || price === undefined || !token
EndpointInvalid(r) ==
  Falsy(r.url) \/ Falsy(r.name) \/ Falsy(r.owner) \/ ~r.hasPrice \/ Falsy(r.token)

\* Math.random in generateId
generateId == EndpointIds

\* POST /registry/register; verifyX402Endpoint fetches the url and may find
\* it valid or not; INSERT, the handler's one statement, fails on an id that
\* is already a key
RegisterEndpoint ==
  /\ req = NoReq
  /\ \E r \in EndpointRequests :
       /\ req' = r
       /\ IF EndpointInvalid(r)
          THEN /\ resp' = [op |-> "registerEndpoint", status |-> 400]
               /\ endpoints' = endpoints
          ELSE \E isVerified \in BOOLEAN, id \in generateId :
                 IF HasRow(endpoints, id)
                 THEN /\ resp' = [op |-> "registerEndpoint", status |-> 500]
                      /\ endpoints' = endpoints
                 ELSE /\ resp' = [op |-> "registerEndpoint", status |-> 201]
                      /\ endpoints' = endpoints \cup
                           {[id |-> id, owner |-> r.owner, name |-> r.name,
                             price |-> r.price, verified |-> isVerified]}
  /\ UNCHANGED <<agentRegistry, capabilityIndex, nRegistered, inflight, invoices, pending>>

\* (row as any).owner !== owner
NotAuthorized(row, owner) == row.owner # owner

\* the sequence without its i-th element
Remove(s, i) == SubSeq(s, 1, i - 1) \o SubSeq(s, i + 1, Len(s))

\* DELETE /registry/:id up to its second await: the SELECT and the two tests
DeleteEndpoint ==
  /\ req = NoReq
  /\ \E id \in EndpointPathIds, owner \in OwnerHeaders :
       IF ~HasRow(endpoints, id)
       THEN /\ req' = [op |-> "deleteEndpoint", id |-> id, header |-> owner,
                       updates |-> NoUpdates]
            /\ resp' = [op |-> "deleteEndpoint", status |-> 404]
            /\ pending' = pending
       ELSE IF NotAuthorized(Row(endpoints, id), owner)
       THEN /\ req' = [op |-> "deleteEndpoint", id |-> id, header |-> owner,
                       updates |-> NoUpdates]
            /\ resp' = [op |-> "deleteEndpoint", status |-> 403]
            /\ pending' = pending
       ELSE /\ Len(pending) < MaxPending
            /\ pending' = Append(pending, [op |-> "deleteEndpoint", id |-> id,
                                           header |-> owner, updates |-> NoUpdates,
                                           pc |-> "delete"])
            /\ UNCHANGED <<req, resp>>
  /\ UNCHANGED <<agentRegistry, capabilityIndex, nRegistered, inflight, endpoints, invoices>>

\* DELETE FROM endpoints WHERE id = ? and the return that follows it
DeleteEndpointRun ==
  /\ req = NoReq
  /\ \E i \in 1..Len(pending) :
       /\ pending[i].pc = "delete"
       /\ endpoints' = {row \in endpoints : row.id # pending[i].id}
       /\ req' = [op |-> "deleteEndpoint", id |-> pending[i].id,
                  header |-> pending[i].header, updates |-> NoUpdates]
       /\ resp' = [op |-> "deleteEndpoint", status |-> 200]
       /\ pending' = Remove(pending, i)
  /\ UNCHANGED <<agentRegistry, capabilityIndex, nRegistered, inflight, invoices>>

\* allowedUpdates = ["name", "description", "price", "tags", "category"]:
\* the columns of the row that UPDATE sets, owner not among them
ApplyUpdates(row, updates) ==
  [row EXCEPT !.name = IF updates.name # Missing THEN updates.name ELSE @,
              !.price = IF updates.hasPrice THEN updates.price ELSE @]

\* PUT /registry/:id up to its third await: the body, the SELECT and the tests
UpdateEndpoint ==
  /\ req = NoReq
  /\ \E id \in EndpointPathIds, owner \in OwnerHeaders, updates \in Updates :
       IF ~HasRow(endpoints, id)
       THEN /\ req' = [op |-> "updateEndpoint", id |-> id, header |-> owner,
                       updates |-> updates]
            /\ resp' = [op |-> "updateEndpoint", status |-> 404]
            /\ pending' = pending
       ELSE IF NotAuthorized(Row(endpoints, id), owner)
       THEN /\ req' = [op |-> "updateEndpoint", id |-> id, header |-> owner,
                       updates |-> updates]
            /\ resp' = [op |-> "updateEndpoint", status |-> 403]
            /\ pending' = pending
       ELSE /\ Len(pending) < MaxPending
            /\ pending' = Append(pending, [op |-> "updateEndpoint", id |-> id,
                                           header |-> owner, updates |-> updates,
                                           pc |-> "update"])
            /\ UNCHANGED <<req, resp>>
  /\ UNCHANGED <<agentRegistry, capabilityIndex, nRegistered, inflight, endpoints, invoices>>

\* UPDATE endpoints SET ... WHERE id = ?: the row that has the id now, if any
UpdateEndpointRun ==
  /\ req = NoReq
  /\ \E i \in 1..Len(pending) :
       /\ pending[i].pc = "update"
       /\ endpoints' = {IF row.id = pending[i].id
                        THEN ApplyUpdates(row, pending[i].updates)
                        ELSE row : row \in endpoints}
       /\ pending' = [pending EXCEPT ![i].pc = "reselect"]
  /\ UNCHANGED <<agentRegistry, capabilityIndex, nRegistered, req, resp, inflight, invoices>>

\* the second SELECT of PUT and the return: rowToEndpoint(null) throws a
\* TypeError, which the framework answers with 500
UpdateEndpointReturn ==
  /\ req = NoReq
  /\ \E i \in 1..Len(pending) :
       /\ pending[i].pc = "reselect"
       /\ req' = [op |-> "updateEndpoint", id |-> pending[i].id,
                  header |-> pending[i].header, updates |-> pending[i].updates]
       /\ resp' = [op |-> "updateEndpoint",
                   status |-> IF HasRow(endpoints, pending[i].id) THEN 200 ELSE 500]
       /\ pending' = Remove(pending, i)
  /\ UNCHANGED <<agentRegistry, capabilityIndex, nRegistered, inflight, endpoints, invoices>>

NextRegistry ==
  \/ RegisterEndpoint
  \/ DeleteEndpoint
  \/ DeleteEndpointRun
  \/ UpdateEndpoint
  \/ UpdateEndpointRun
  \/ UpdateEndpointReturn
  \/ Respond

SpecRegistry == Init /\ [][NextRegistry]_vars

\* the table changes in this step only if it holds a row with this id whose
\* owner is the header the handler was called with
WriteBy(id, header) ==
  endpoints' # endpoints =>
    \E row \in endpoints : row.id = id /\ row.owner = header

(***************************************************************************)
(* C20: a DELETE or PUT handler on /registry/:id changes the endpoints     *)
(* table only while the table holds a row with that id whose owner is the  *)
(* X-Owner-Address header of the call; a call whose SELECT finds no row is *)
(* answered 404 and one whose SELECT finds a row of another owner (or that *)
(* sends no header) 403, both leaving the table unchanged; no step of      *)
(* either handler leaves a row whose id had another owner before it.       *)
(***************************************************************************)
C20_OwnerOnly ==
  [][ /\ (req = NoReq /\ req'.op \in {"deleteEndpoint", "updateEndpoint"}) =>
           /\ WriteBy(req'.id, req'.header)
           /\ (pending' = pending /\ \A row \in endpoints : row.id # req'.id) =>
                resp'.status = 404 /\ endpoints' = endpoints
           /\ (pending' = pending /\
               \E row \in endpoints : row.id = req'.id /\ row.owner # req'.header) =>
                resp'.status = 403 /\ endpoints' = endpoints
      /\ (req' = req /\ Len(pending') = Len(pending)) =>
           \A i \in 1..Len(pending) :
             pending'[i] # pending[i] => WriteBy(pending[i].id, pending[i].header)
      /\ req'.op # "registerEndpoint" =>
           \A after \in endpoints' :
             \E before \in endpoints : before.id = after.id /\ before.owner = after.owner
    ]_vars

(***************************************************************************)
(* The two-phase greedy first-fit as the specification words it, written   *)
(* apart from selectAgentsForTask: one candidate list (the preferred ids,  *)
(* then the index entry of each requested capability) is walked once, and  *)
(* a candidate is taken exactly when it is in the catalog, is not yet      *)
(* taken and its basePrice is at most what remains.                        *)
(***************************************************************************)
RECURSIVE CapabilityCandidates(_)
CapabilityCandidates(capabilities) ==
  IF capabilities = <<>> THEN <<>>
  ELSE IndexGet(capabilityIndex, Head(capabilities))
         \o CapabilityCandidates(Tail(capabilities))

RECURSIVE FirstFit(_, _, _)
FirstFit(candidates, taken, remaining) ==
  IF candidates = <<>> THEN taken
  ELSE LET id == Head(candidates)
           fits == /\ RegistryHas(agentRegistry, id)
                   /\ \A i \in 1..Len(taken) : taken[i] # id
                   /\ RegistryGet(agentRegistry, id).basePrice <= remaining
       IN IF fits
          THEN FirstFit(Tail(candidates), Append(taken, id),
                        remaining - RegistryGet(agentRegistry, id).basePrice)
          ELSE FirstFit(Tail(candidates), taken, remaining)

SelectedIds(agents) == [i \in 1..Len(agents) |-> agents[i].id]

(***************************************************************************)
(* C21: select is exactly the two-phase greedy first-fit: the preferred    *)
(* ids in order, then the index entries of the requested capabilities in   *)
(* order; a candidate is appended, and its price deducted, exactly when it *)
(* exists, is not already selected and its basePrice <= remaining.         *)
(***************************************************************************)
C21_GreedyFirstFit ==
  req.op = "select" =>
    SelectedIds(resp.selected) =
      FirstFit(req.preferredAgents \o CapabilityCandidates(req.capabilities),
               <<>>, req.budget)

(***************************************************************************)
(* C22: for every execute call with proof, agentsUsed has one entry per    *)
(* agent returned by the selection, in the same order, each with cost the  *)
(* agent's basePrice (the early stop of the call loop never cuts the       *)
(* selection short); totalCost is the sum of these costs and at most the   *)
(* budget; platformFee is the smallest integer >= totalCost / 10.          *)
(***************************************************************************)
C22_AgentsUsed ==
  (req.op = "execute" /\ resp.status = 200) =>
    /\ Len(resp.agentsUsed) = Len(resp.selected)
    /\ \A i \in 1..Len(resp.agentsUsed) :
         /\ resp.agentsUsed[i].agentId = resp.selected[i].id
         /\ RegistryHas(agentRegistry, resp.agentsUsed[i].agentId)
         /\ resp.agentsUsed[i].cost =
              RegistryGet(agentRegistry, resp.agentsUsed[i].agentId).basePrice
    /\ resp.totalCost = SumSeq([i \in 1..Len(resp.agentsUsed) |-> resp.agentsUsed[i].cost])
    /\ resp.totalCost <= req.budget
    /\ IsCeilTenth(resp.platformFee, resp.totalCost)

\* two agents are called and the second takes exactly what the first left
C22_Witness ==
  /\ req.op = "execute" /\ resp.status = 200
  /\ req.budget = 505
  /\ Len(resp.agentsUsed) = 2
  /\ resp.agentsUsed[1].cost = 5 /\ resp.agentsUsed[2].cost = 500
  /\ resp.totalCost = 505
  /\ resp.platformFee = 51

\* the steps of a chain request whose agentId is in the catalog
ResolvedSteps(steps) ==
  LET Resolves(step) == RegistryHas(agentRegistry, step.agentId)
  IN SelectSeq(steps, Resolves)

(***************************************************************************)
(* C23: a chain step whose agentId is not in the catalog never rejects the *)
(* chain: it stays in the plan named "Unknown" with estimatedCost 0, adds  *)
(* nothing to totalCost or platformFee (both are what the resolved steps   *)
(* alone give), and with proof its result entry is reported completed.     *)
(***************************************************************************)
C23_UnresolvedStep ==
  ( /\ req.op = "chain" /\ req.stepsKind = "list" /\ AllSteps(req.steps)
    /\ \E i \in 1..Len(req.steps) : ~RegistryHas(agentRegistry, req.steps[i].agentId) ) =>
    LET cost == StepsCost(ResolvedSteps(req.steps)) IN
    /\ resp.status = IF Falsy(req.proof) THEN 402 ELSE 200
    /\ Len(resp.chain) = Len(req.steps)
    /\ \A i \in 1..Len(req.steps) :
         ~RegistryHas(agentRegistry, req.steps[i].agentId) =>
           /\ resp.chain[i].agentId = req.steps[i].agentId
           /\ resp.chain[i].agentName = "Unknown"
           /\ resp.chain[i].estimatedCost = 0
           /\ resp.status = 200 =>
                /\ resp.results[i].step = i
                /\ resp.results[i].status = "completed"
                /\ resp.results[i].agentName = "Unknown"
    /\ resp.status = 200 =>
         resp.totalCost = cost /\ IsCeilTenth(resp.platformFee, cost)
    /\ resp.status = 402 => IsCeilTenth(resp.amount - cost, cost)

\* with proof: an unknown first step and a second step priced 300
C23_Witness ==
  /\ req.op = "chain" /\ resp.status = 200
  /\ Len(req.steps) = 2
  /\ ~RegistryHas(agentRegistry, req.steps[1].agentId)
  /\ RegistryHas(agentRegistry, req.steps[2].agentId)
  /\ resp.chain[1].agentName = "Unknown"
  /\ resp.chain[2].estimatedCost = 300
  /\ resp.totalCost = 300 /\ resp.platformFee = 30
  /\ resp.results[1].status = "completed"

(***************************************************************************)
(* C24: in both flows validation is decided before the payment gate: an    *)
(* execute request missing task, budget or token, and a chain request      *)
(* whose steps is missing, not a list or empty, is answered 400 with or    *)
(* without a payment proof, never with a payment demand or a result; and   *)
(* no call of execute or chain ends in an error other than this 400.       *)
(* A null element of steps, a task that is not a string and a              *)
(* preferredAgents that is not a list pass the validation and end in 500.  *)
(***************************************************************************)
C24_ValidationBeforeGate ==
  /\ ( /\ req.op = "execute"
       /\ (req.task = <<>> \/ ~req.hasBudget \/ Falsy(req.token)) )
       => resp.status = 400 /\ resp.returned = "validation"
  /\ ( /\ req.op = "chain"
       /\ (req.stepsKind # "list" \/ Len(req.steps) = 0) )
       => resp.status = 400 /\ resp.returned = "validation"
  /\ req.op \in {"execute", "chain"} =>
       /\ resp.status \in {200, 400, 402}
       /\ resp.status = 400 <=> resp.returned = "validation"
       /\ resp.status = 402 <=> resp.returned = "payment"
       /\ resp.status = 200 <=> resp.returned = "result"

(***************************************************************************)
(* C25: for an accepted chain request with n steps the plan has n entries  *)
(* in input order numbered 1..n; inputFrom is the caller's value when      *)
(* given, otherwise "user" for step 1 and "step<k-1>" for step k > 1; it   *)
(* is not validated and does not reorder; with proof, results has one      *)
(* entry per step in the same order with the same numbers.                 *)
(***************************************************************************)
C25_ChainPlanShape ==
  (req.op = "chain" /\ resp.status \in {200, 402}) =>
    LET n == Len(req.steps) IN
    /\ Len(resp.chain) = n
    /\ resp.status = 402 => resp.totalSteps = n
    /\ \A k \in 1..n :
         /\ resp.chain[k].step = k
         /\ resp.chain[k].agentId = req.steps[k].agentId
         /\ resp.chain[k].inputFrom =
              IF req.steps[k].inputFrom # <<>> THEN req.steps[k].inputFrom
              ELSE IF k = 1 THEN <<"user">> ELSE <<"step", k - 1>>
    /\ resp.status = 200 =>
         /\ Len(resp.results) = n
         /\ \A k \in 1..n : resp.results[k].step = k
                            /\ resp.results[k].agentName = resp.chain[k].agentName

\* two steps: the second, given no inputFrom, reads from step1; both have results
C25_Witness ==
  /\ req.op = "chain" /\ resp.status = 200
  /\ Len(req.steps) = 2
  /\ req.steps[1].inputFrom = <<"user">> /\ req.steps[2].inputFrom = <<>>
  /\ req.steps[1].agentId # req.steps[2].agentId
  /\ resp.chain[2].inputFrom = <<"step", 1>>
  /\ Len(resp.results) = 2 /\ resp.results[2].step = 2

(***************************************************************************)
(* Catalog reads: GET /capabilities, GET / and GET /:id/openapi            *)
(***************************************************************************)
\* the characters of capability names, in ascending order of UTF-16 code unit
CodeUnits ==
  <<"-", "a", "b", "c", "d", "e", "f", "g", "h", "i", "j", "k", "l", "m",
    "n", "o", "p", "q", "r", "s", "t", "u", "v", "w", "x", "y", "z">>

CodeUnit(ch) == CHOOSE i \in 1..Len(CodeUnits) : CodeUnits[i] = ch

\* a capability name as the characters Array.prototype.sort compares
CapabilityChars(cap) ==
  CASE cap = "defi" -> <<"d", "e", "f", "i">>
    [] cap = "yield-farming" ->
         <<"y", "i", "e", "l", "d", "-", "f", "a", "r", "m", "i", "n", "g">>
    [] cap = "lending" -> <<"l", "e", "n", "d", "i", "n", "g">>
    [] cap = "blockchain-query" ->
         <<"b", "l", "o", "c", "k", "c", "h", "a", "i", "n", "-", "q", "u", "e", "r", "y">>
    [] cap = "data-transform" ->
         <<"d", "a", "t", "a", "-", "t", "r", "a", "n", "s", "f", "o", "r", "m">>
    [] cap = "summarize" -> <<"s", "u", "m", "m", "a", "r", "i", "z", "e">>

\* a reversed comparison: the later string is taken as the smaller one
RECURSIVE CharsGreater(_, _)
CharsGreater(a, b) ==
  IF b = <<>> THEN a # <<>>
  ELSE IF a = <<>> THEN FALSE
  ELSE IF CodeUnit(a[1]) # CodeUnit(b[1]) THEN CodeUnit(a[1]) > CodeUnit(b[1])
  ELSE CharsGreater(Tail(a), Tail(b))

\* the default comparison of sort(): strings by code units, a proper prefix first
RECURSIVE CharsLess(_, _)
CharsLess(a, b) ==
  IF a = <<>> THEN b # <<>>
  ELSE IF b = <<>> THEN FALSE
  ELSE IF CodeUnit(a[1]) # CodeUnit(b[1]) THEN CodeUnit(a[1]) < CodeUnit(b[1])
  ELSE CharsLess(Tail(a), Tail(b))

\* Array.from(capabilityIndex.keys()).sort(): the keys are distinct, so the
\* sorted array does not depend on the order the Map yields them in
RECURSIVE SortedKeys(_)
SortedKeys(keys) ==
  IF keys = {} THEN <<>>
  ELSE LET first == CHOOSE k \in keys :
                      \A other \in keys \ {k} :
                        CharsLess(CapabilityChars(k), CapabilityChars(other))
       IN <<first>> \o SortedKeys(keys \ {first})

\* the description and the fixed category list of the answer are constant
\* text and are left out
ListCapabilitiesResponse(reg, idx) ==
  LET allCapabilities == SortedKeys(DOMAIN idx)
  IN [op |-> "capabilities", status |-> 200,
      totalCapabilities |-> Len(allCapabilities),
      totalAgents |-> Len(reg),
      capabilities |->
        [i \in 1..Len(allCapabilities) |->
           [capability |-> allCapabilities[i],
            agentCount |-> Len(IndexGet(idx, allCapabilities[i]))]]]

ListCapabilities ==
  /\ req = NoReq
  /\ req' = [op |-> "capabilities"]
  /\ resp' = ListCapabilitiesResponse(agentRegistry, capabilityIndex)
  /\ UNCHANGED <<agentRegistry, capabilityIndex, nRegistered, inflight, endpoints, invoices, pending>>

ListAgents ==
  /\ req = NoReq
  /\ req' = [op |-> "list"]
  /\ resp' = [op |-> "list", status |-> 200, total |-> Len(agentRegistry),
              agents |-> [i \in 1..Len(agentRegistry) |->
                            [id |-> agentRegistry[i].id,
                             name |-> agentRegistry[i].name,
                             capabilities |-> agentRegistry[i].capabilities,
                             basePrice |-> agentRegistry[i].basePrice]]]
  /\ UNCHANGED <<agentRegistry, capabilityIndex, nRegistered, inflight, endpoints, invoices, pending>>

OpenApiIds == GeneratedIds \cup {SeedId}

OpenApi ==
  /\ req = NoReq
  /\ \E id \in OpenApiIds :
       /\ req' = [op |-> "openapi", id |-> id]
       /\ resp' = IF ~RegistryHas(agentRegistry, id)
                  THEN [op |-> "openapi", status |-> 404, title |-> Missing,
                        capabilities |-> <<>>, amount |-> 0]
                  ELSE LET agent == RegistryGet(agentRegistry, id)
                       IN [op |-> "openapi", status |-> 200, title |-> agent.name,
                           capabilities |-> agent.capabilities,
                           amount |-> agent.basePrice]
  /\ UNCHANGED <<agentRegistry, capabilityIndex, nRegistered, inflight, endpoints, invoices, pending>>

NextCatalog == Register \/ ListCapabilities \/ ListAgents \/ OpenApi \/ Respond

SpecCatalog == Init /\ [][NextCatalog]_vars

\* the capability names of the model in ascending lexicographic order
AscendingCapabilities ==
  <<"blockchain-query", "data-transform", "defi", "lending", "summarize",
    "yield-farming">>

IsIndexKey(cap) == cap \in DOMAIN capabilityIndex

\* the number of catalog agents whose id the index entry of cap holds
IndexedAgents(cap) ==
  Cardinality({IndexGet(capabilityIndex, cap)[i] :
                 i \in 1..Len(IndexGet(capabilityIndex, cap))})

\* C26: GET /capabilities answers with one entry per key of the capability
\* index, each key once, in ascending lexicographic order; an entry's
\* agentCount is the number of ids in that capability's index entry;
\* totalCapabilities is the number of entries and totalAgents the size of
\* the catalog.
C26_ListCapabilities ==
  req.op = "capabilities" =>
    /\ [i \in 1..Len(resp.capabilities) |-> resp.capabilities[i].capability]
         = SelectSeq(AscendingCapabilities, IsIndexKey)
    /\ \A i \in 1..Len(resp.capabilities) :
         resp.capabilities[i].agentCount =
           IndexedAgents(resp.capabilities[i].capability)
    /\ resp.totalCapabilities = Len(resp.capabilities)
    /\ resp.totalCapabilities = Cardinality(DOMAIN capabilityIndex)
    /\ resp.totalAgents = Len(agentRegistry)
    /\ resp.totalAgents = Cardinality({agentRegistry[i].id : i \in 1..Len(agentRegistry)})

\* a listing after two registrations: "summarize" is a sixth key, placed
\* between "lending" and "yield-farming", with two agents
C26_Witness ==
  /\ req.op = "capabilities"
  /\ resp.totalCapabilities = 6
  /\ resp.totalAgents = 3
  /\ resp.capabilities[5] = [capability |-> "summarize", agentCount |-> 2]
  /\ resp.capabilities[1].agentCount = 2

(***************************************************************************)
(* Every agents endpoint next to registration                              *)
(***************************************************************************)
NextAgents ==
  \/ Register
  \/ Recommend
  \/ Execute
  \/ Chain
  \/ ListCapabilities
  \/ ListAgents
  \/ OpenApi
  \/ Respond

SpecAgents == Init /\ [][NextAgents]_vars

ReadOps == {"recommend", "execute", "chain", "capabilities", "list", "openapi"}

\* C27: a recommend, execute, chain, listCapabilities, list or openapi call,
\* whatever its input and whatever its outcome (400, 402, 404, 500 or
\* success), leaves the agent catalog and the capability index as they were;
\* only a registration changes either.
C27_ReadsLeaveCatalog ==
  [][/\ req'.op \in ReadOps =>
          /\ agentRegistry' = agentRegistry
          /\ capabilityIndex' = capabilityIndex
     /\ (agentRegistry' # agentRegistry \/ capabilityIndex' # capabilityIndex) =>
          /\ req'.op = "register"
          /\ resp'.status \in {201, 500}]_vars

\* a paid chain with an unresolved step has been answered on a catalog that
\* a registration has grown to two agents
C27_Witness ==
  /\ req.op = "chain"
  /\ resp.status = 200
  /\ Len(agentRegistry) = 2
  /\ \E i \in 1..Len(req.steps) : ~RegistryHas(agentRegistry, req.steps[i].agentId)

(***************************************************************************)
(* Index soundness                                                         *)
(***************************************************************************)
\* the agent stored under id lists cap among its capabilities
AgentDeclares(id, cap) ==
  /\ RegistryHas(agentRegistry, id)
  /\ RegistryGet(agentRegistry, id).capsIsList
  /\ ListIncludes(RegistryGet(agentRegistry, id).capabilities, cap)

\* the ids of the catalog agents that list cap
DeclaringAgents(cap) ==
  {agentRegistry[i].id : i \in {j \in 1..Len(agentRegistry) :
                                  AgentDeclares(agentRegistry[j].id, cap)}}

\* how many of the selected agents the preferred phase contributed
PreferredCount(r) ==
  Len(SelectPreferred(agentRegistry, [selected |-> <<>>, remainingBudget |-> r.budget],
                      r.preferredAgents).selected)

\* C28: in every reachable state every id in the index entry of a capability
\* is the id of an agent of the catalog whose capabilities contain that
\* capability; hence the number of ids in the entry (agentCount) is the
\* number of catalog agents declaring the capability, and every agent that
\* the capability phase of a selection takes declares at least one of the
\* requested capabilities.
C28_IndexSoundness ==
  /\ \A cap \in DOMAIN capabilityIndex :
       /\ \A k \in 1..Len(capabilityIndex[cap]) :
            AgentDeclares(capabilityIndex[cap][k], cap)
       /\ Len(capabilityIndex[cap]) = Cardinality(DeclaringAgents(cap))
  /\ req.op = "select" =>
       \A i \in (PreferredCount(req) + 1)..Len(resp.selected) :
         \E k \in 1..Len(req.capabilities) :
           AgentDeclares(resp.selected[i].id, req.capabilities[k])

(***************************************************************************)
(* The charge of an executed request against its payment demand            *)
(***************************************************************************)
\* the answer the same request gets when it carries no payment proof
Demand(r) == ExecuteResponse(agentRegistry, capabilityIndex, [r EXCEPT !.proof = Missing])

\* C29: for every valid execute request, the totalCost + platformFee reported
\* when it is executed with a payment proof is at most the amount
\* (budget + fee on budget) the same request is quoted in its payment demand,
\* and the reported platformFee is at most the demanded platformFee.
C29_ChargedAtMostDemanded ==
  (req.op = "execute" /\ resp.status = 200) =>
    /\ Demand(req).status = 402
    /\ IsCeilTenth(Demand(req).platformFee, req.budget)
    /\ Demand(req).amount = req.budget + Demand(req).platformFee
    /\ resp.totalCost + resp.platformFee <= Demand(req).amount
    /\ resp.platformFee <= Demand(req).platformFee

\* an executed request that spends its whole budget: the charge equals the
\* demanded amount, 505 + 51
C29_Witness ==
  /\ req.op = "execute"
  /\ resp.status = 200
  /\ resp.totalCost = req.budget
  /\ resp.totalCost + resp.platformFee = 556
  /\ Demand(req).amount = 556

(***************************************************************************)
(* Payment routes: POST /payments/create-invoice and POST /payments/verify *)
(* Text (memos) is a tuple of characters.  A transaction is the JSON the    *)
(* chain API answers with, its amount and memo taken as already decoded.   *)
(***************************************************************************)
InvoiceIds == {"inv_a", "inv_b"}
InvoiceAmounts == {0, 50, 100}
InvoiceRecipients == {Missing, "SP1"}
InvoiceTokens == {Missing, "sBTC"}
MemoAB == <<"a", "b">>
InvoiceMemos == {<<>>, MemoAB}
TxIds == {Missing, "tx1", "tx2"}

IdChars(id) ==
  CASE id = "inv_a" -> <<"i", "n", "v", "_", "a">>
    [] id = "inv_b" -> <<"i", "n", "v", "_", "b">>

\* `invoice:${id}`
DefaultMemo(id) == <<"i", "n", "v", "o", "i", "c", "e", ":">> \o IdChars(id)

CreateInvoiceRequests ==
  [op : {"create-invoice"}, amount : InvoiceAmounts, token : InvoiceTokens,
   recipient : InvoiceRecipients, memo : InvoiceMemos]

\* !amount || !token || !recipient
CreateInvoiceInvalid(r) == r.amount = 0 \/ Falsy(r.token) \/ Falsy(r.recipient)

\* Date.now() and Math.random in generateInvoiceId: any id, whatever the Map holds
generateInvoiceId == InvoiceIds

\* invoices.set(id, invoice)
InvoicesSet(inv, id, invoice) ==
  [k \in (DOMAIN inv) \cup {id} |-> IF k = id THEN invoice ELSE inv[k]]

\* the invoice object of create-invoice; expiresAt is never read again and is
\* left out; memo || `invoice:${id}`
NewInvoice(r, id) ==
  [id |-> id, amount |-> r.amount, token |-> r.token, recipient |-> r.recipient,
   memo |-> IF r.memo = <<>> THEN DefaultMemo(id) ELSE r.memo,
   status |-> "pending", txId |-> Missing]

CreateInvoice ==
  /\ req = NoReq
  /\ \E r \in CreateInvoiceRequests :
       /\ req' = r
       /\ IF CreateInvoiceInvalid(r)
          THEN /\ resp' = [op |-> "create-invoice", status |-> 400, id |-> Missing]
               /\ invoices' = invoices
          ELSE \E id \in generateInvoiceId :
                 /\ invoices' = InvoicesSet(invoices, id, NewInvoice(r, id))
                 /\ resp' = [op |-> "create-invoice", status |-> 200, id |-> id]
  /\ UNCHANGED <<agentRegistry, capabilityIndex, nRegistered, inflight, endpoints, pending>>

TxAmounts == {50, 100}
TxRecipients == {"SP1", "SP2"}
TxMemos == {Missing, MemoAB, <<"x", "a", "b">>, <<"b">>, DefaultMemo("inv_a")}

\* what fetch of the transaction can come to: an exception, a response that
\* is not ok, or the JSON of a transaction
Fetched ==
  {[outcome |-> o, tx_status |-> Missing, tx_type |-> Missing, amount |-> 0,
    recipient |-> "", memo |-> Missing] : o \in {"throws", "not-ok"}}
  \cup [outcome : {"ok"}, tx_status : {"success", "abort_by_response"},
        tx_type : {"token_transfer", "contract_call", "coinbase"},
        amount : TxAmounts, recipient : TxRecipients, memo : TxMemos]

VerifyRequests ==
  [op : {"verify"}, txId : TxIds, invoiceId : InvoiceIds \cup {Missing}, fetched : Fetched]

\* extractPaymentDetails: a transfer's amount, recipient and memo; of any other
\* transaction amount 0, recipient "" and no memo
extractPaymentDetails(tx) ==
  IF tx.tx_type \in {"token_transfer", "contract_call"}
  THEN [amount |-> tx.amount, recipient |-> tx.recipient, memo |-> tx.memo]
  ELSE [amount |-> 0, recipient |-> "", memo |-> Missing]

\* paymentDetails.amount >= invoice.amount &&
\* paymentDetails.recipient === invoice.recipient &&
\* paymentDetails.memo?.includes(invoice.memo)
IsValid(paymentDetails, invoice) ==
  /\ paymentDetails.amount >= invoice.amount
  /\ paymentDetails.recipient = invoice.recipient
  /\ paymentDetails.memo # Missing
  /\ IsSubstring(invoice.memo, paymentDetails.memo)

Verify ==
  /\ req = NoReq
  /\ \E r \in VerifyRequests :
       /\ req' = r
       /\ IF Falsy(r.txId)
          THEN /\ resp' = [op |-> "verify", status |-> 400, verified |-> FALSE]
               /\ invoices' = invoices
          ELSE IF r.fetched.outcome = "throws"
          THEN /\ resp' = [op |-> "verify", status |-> 500, verified |-> FALSE]
               /\ invoices' = invoices
          ELSE IF r.fetched.outcome = "not-ok"
          THEN /\ resp' = [op |-> "verify", status |-> 404, verified |-> FALSE]
               /\ invoices' = invoices
          ELSE IF r.fetched.tx_status # "success"
          THEN /\ resp' = [op |-> "verify", status |-> 200, verified |-> FALSE]
               /\ invoices' = invoices
          ELSE IF Falsy(r.invoiceId)
          THEN /\ resp' = [op |-> "verify", status |-> 200, verified |-> TRUE]
               /\ invoices' = invoices
          ELSE IF r.invoiceId \notin DOMAIN invoices
          THEN /\ resp' = [op |-> "verify", status |-> 404, verified |-> FALSE]
               /\ invoices' = invoices
          ELSE LET invoice == invoices[r.invoiceId]
                   isValid == IsValid(extractPaymentDetails(r.fetched), invoice)
               IN /\ resp' = [op |-> "verify", status |-> 200, verified |-> isValid]
                  /\ invoices' =
                       IF isValid
                       THEN InvoicesSet(invoices, r.invoiceId,
                                        [invoice EXCEPT !.status = "paid", !.txId = r.txId])
                       ELSE invoices
  /\ UNCHANGED <<agentRegistry, capabilityIndex, nRegistered, inflight, endpoints, pending>>

NextPayments == CreateInvoice \/ Verify \/ Respond

SpecPayments == Init /\ [][NextPayments]_vars

\* the verify call being answered names the invoice stored under id and
\* carries a transaction that passes every check against it
PaidBy(r, id) ==
  /\ r.op = "verify"
  /\ r.invoiceId = id
  /\ r.fetched.outcome = "ok"
  /\ r.fetched.tx_status = "success"
  /\ extractPaymentDetails(r.fetched).amount >= invoices[id].amount
  /\ extractPaymentDetails(r.fetched).recipient = invoices[id].recipient
  /\ extractPaymentDetails(r.fetched).memo # Missing
  /\ IsSubstring(invoices[id].memo, extractPaymentDetails(r.fetched).memo)

\* C30: an invoice is created with status pending; an invoice changes only by
\* becoming paid, through a verify call that names it with a transaction whose
\* status is success, whose amount is at least the invoice amount, whose
\* recipient is the invoice recipient and whose memo contains the invoice
\* memo, and the txId of that call is recorded in the same step; a verify call
\* that fails a check leaves the invoice as it was; a paid invoice stays paid.
C30_InvoiceLifecycle ==
  [][/\ DOMAIN invoices \subseteq DOMAIN invoices'
     /\ \A id \in DOMAIN invoices' :
          IF id \notin DOMAIN invoices
          THEN /\ req'.op = "create-invoice"
               /\ invoices'[id].status = "pending"
          ELSE /\ invoices[id].status = "paid" => invoices'[id].status = "paid"
               /\ invoices'[id] # invoices[id] =>
                    /\ PaidBy(req', id)
                    /\ invoices'[id] =
                         [invoices[id] EXCEPT !.status = "paid", !.txId = req'.txId]]_vars

(***************************************************************************)
(* Specifications of one operation next to registration                    *)
(***************************************************************************)
NextSelect == Register \/ Select \/ Respond

SpecSelect == Init /\ [][NextSelect]_vars

NextExecute == Register \/ Execute \/ Respond

SpecExecute == Init /\ [][NextExecute]_vars

NextChain == Register \/ Chain \/ Respond

SpecChain == Init /\ [][NextChain]_vars

====
